---- MODULE Spec2Model ----
(***************************************************************************)
(* Model of custom_components/catholic_se/sensor.py: the text normalizer   *)
(* clean_html, the readings parser parse_katolska_readings, the            *)
(* martyrology parser with ordinal, truncate_text, and the per-date        *)
(* memoizing coordinators with the sensors that poll them.                 *)
(*                                                                         *)
(* A Python str is a sequence of one-character strings, so that the        *)
(* regular expressions of the source are computed character by character.  *)
(***************************************************************************)
EXTENDS Integers, Sequences, FiniteSets, TLC

\* Python's None, for the fields that hold either None or a str: a one-element
\* sequence that is no str, the elements of a str being single characters.
None == <<"None">>

(***************************************************************************)
(* Character helpers for the re module                                     *)
(***************************************************************************)

UpperChars == <<"A", "B", "C", "D", "E", "F", "G", "H", "I", "J", "K", "L", "M", "N", "O", "P", "Q", "R", "S", "T", "U", "V", "W", "X", "Y", "Z", "Ä", "Å", "Ö">>

LowerChars == <<"a", "b", "c", "d", "e", "f", "g", "h", "i", "j", "k", "l", "m", "n", "o", "p", "q", "r", "s", "t", "u", "v", "w", "x", "y", "z", "ä", "å", "ö">>

DigitChars == <<"0", "1", "2", "3", "4", "5", "6", "7", "8", "9">>

\* str.lower() / str.upper() of one character (re.IGNORECASE, capitalize).
ToLower ==
    [c \in {UpperChars[i] : i \in 1..Len(UpperChars)} |->
        LowerChars[CHOOSE i \in 1..Len(UpperChars) : UpperChars[i] = c]]

ToUpper ==
    [c \in {LowerChars[i] : i \in 1..Len(LowerChars)} |->
        UpperChars[CHOOSE i \in 1..Len(LowerChars) : LowerChars[i] = c]]

Lower(c) == IF c \in DOMAIN ToLower THEN ToLower[c] ELSE c

Upper(c) == IF c \in DOMAIN ToUpper THEN ToUpper[c] ELSE c

\* The characters \w matches.
WordChars == DOMAIN ToLower \cup DOMAIN ToUpper \cup {DigitChars[i] : i \in 1..10} \cup {"_"}

\* The characters \s matches.
Whitespace == {" ", "\t", "\n", "\r", "\f"}

\* pat occurs in s at index i (exact case).
StartsWithAt(s, pat, i) ==
    /\ i >= 1
    /\ i + Len(pat) - 1 <= Len(s)
    /\ \A k \in 1..Len(pat) : s[i + k - 1] = pat[k]

\* pat (lower case) occurs in s at index i, ignoring case.
StartsWithAtCI(s, pat, i) ==
    /\ i >= 1
    /\ i + Len(pat) - 1 <= Len(s)
    /\ \A k \in 1..Len(pat) : Lower(s[i + k - 1]) = pat[k]

\* Least index j >= i with s[j] = c, or 0.
IndexOfChar(s, c, i) ==
    LET J == {j \in i..Len(s) : s[j] = c}
    IN IF J = {} THEN 0 ELSE CHOOSE j \in J : \A k \in J : j <= k

\* Least index j >= i where pat occurs ignoring case, or 0.
IndexOfCI(s, pat, i) ==
    LET J == {j \in i..Len(s) : StartsWithAtCI(s, pat, j)}
    IN IF J = {} THEN 0 ELSE CHOOSE j \in J : \A k \in J : j <= k

\* First index after the maximal run of characters of set C starting at i.
RunEnd(s, C, i) ==
    LET J == {j \in i..Len(s) : s[j] \notin C}
    IN IF J = {} THEN Len(s) + 1 ELSE CHOOSE j \in J : \A k \in J : j <= k

(***************************************************************************)
(* The patterns of clean_html.  MatchEnd(pat, s, i) is the index just      *)
(* after the match the backtracking engine finds at index i, 0 if none.    *)
(***************************************************************************)

\* r'<script[^>]*>.*?</script>' and r'<style[^>]*>.*?</style>', DOTALL|IGNORECASE
BlockMatchEnd(s, open, close, i) ==
    IF ~StartsWithAtCI(s, open, i) THEN 0
    ELSE LET gt == IndexOfChar(s, ">", i + Len(open))
         IN IF gt = 0 THEN 0
            ELSE LET c == IndexOfCI(s, close, gt + 1)
                 IN IF c = 0 THEN 0 ELSE c + Len(close)

\* r'<br\s*/?>', IGNORECASE
BrMatchEnd(s, i) ==
    IF ~StartsWithAtCI(s, <<"<", "b", "r">>, i) THEN 0
    ELSE LET j == RunEnd(s, Whitespace, i + 3)
         IN IF StartsWithAt(s, <<"/", ">">>, j) THEN j + 2
            ELSE IF StartsWithAt(s, <<">">>, j) THEN j + 1
            ELSE 0

\* r'</h[1-6]>', IGNORECASE
HeadingCloseMatchEnd(s, i) ==
    IF /\ StartsWithAtCI(s, <<"<", "/", "h">>, i)
       /\ i + 4 <= Len(s)
       /\ s[i + 3] \in {"1", "2", "3", "4", "5", "6"}
       /\ s[i + 4] = ">"
    THEN i + 5 ELSE 0

\* r'<[^>]+>'
TagMatchEnd(s, i) ==
    IF ~StartsWithAt(s, <<"<">>, i) THEN 0
    ELSE LET gt == IndexOfChar(s, ">", i + 1)
         IN IF gt = 0 \/ gt = i + 1 THEN 0 ELSE gt + 1

\* r'\n\s*\n\s*\n': three newlines in one run of whitespace; greedy \s*
\* extends the match to the last newline of the run.
BlankLinesMatchEnd(s, i) ==
    IF ~StartsWithAt(s, <<"\n">>, i) THEN 0
    ELSE LET r == RunEnd(s, Whitespace, i)
             NL == {j \in i..(r - 1) : s[j] = "\n"}
         IN IF Cardinality(NL) < 3 THEN 0
            ELSE (CHOOSE j \in NL : \A k \in NL : k <= j) + 1

\* r'[ \t]+'
SpacesMatchEnd(s, i) ==
    LET r == RunEnd(s, {" ", "\t"}, i)
    IN IF r > i THEN r ELSE 0

MatchEnd(pat, s, i) ==
    CASE pat = "script"  -> BlockMatchEnd(s, <<"<", "s", "c", "r", "i", "p", "t">>, <<"<", "/", "s", "c", "r", "i", "p", "t", ">">>, i)
      [] pat = "style"   -> BlockMatchEnd(s, <<"<", "s", "t", "y", "l", "e">>, <<"<", "/", "s", "t", "y", "l", "e", ">">>, i)
      [] pat = "br"      -> BrMatchEnd(s, i)
      [] pat = "/p"      -> IF StartsWithAtCI(s, <<"<", "/", "p", ">">>, i) THEN i + 4 ELSE 0
      [] pat = "/div"    -> IF StartsWithAtCI(s, <<"<", "/", "d", "i", "v", ">">>, i) THEN i + 6 ELSE 0
      [] pat = "/h"      -> HeadingCloseMatchEnd(s, i)
      [] pat = "tag"     -> TagMatchEnd(s, i)
      [] pat = "blank"   -> BlankLinesMatchEnd(s, i)
      [] pat = "spaces"  -> SpacesMatchEnd(s, i)

\* re.sub(pat, rep, s): the leftmost non-overlapping matches, scanning from
\* i; ends[j] is the end of the match that starts at j, 0 when there is none.
RECURSIVE ReSubFrom(_, _, _, _)
ReSubFrom(ends, rep, s, i) ==
    LET M == {j \in i..Len(s) : ends[j] > 0}
    IN IF M = {} THEN SubSeq(s, i, Len(s))
       ELSE LET m == CHOOSE j \in M : \A k \in M : j <= k
            IN SubSeq(s, i, m - 1) \o rep \o ReSubFrom(ends, rep, s, ends[m])

ReSub(pat, rep, s) == ReSubFrom([j \in 1..Len(s) |-> MatchEnd(pat, s, j)], rep, s, 1)

\* str.replace(old, new), scanning from i.
RECURSIVE ReplaceFrom(_, _, _, _)
ReplaceFrom(s, old, new, i) ==
    LET M == {j \in i..Len(s) : StartsWithAt(s, old, j)}
    IN IF M = {} THEN SubSeq(s, i, Len(s))
       ELSE LET m == CHOOSE j \in M : \A k \in M : j <= k
            IN SubSeq(s, i, m - 1) \o new \o ReplaceFrom(s, old, new, m + Len(old))

Replace(s, old, new) == ReplaceFrom(s, old, new, 1)

\* str.strip()
Strip(s) ==
    LET K == {j \in 1..Len(s) : s[j] \notin Whitespace}
    IN IF K = {} THEN <<>>
       ELSE LET lo == CHOOSE j \in K : \A k \in K : j <= k
                hi == CHOOSE j \in K : \A k \in K : k <= j
            IN SubSeq(s, lo, hi)

\* The entity table of clean_html, in the order the replacements are made.
Entities ==
    << <<<<"&", "n", "b", "s", "p", ";">>, <<" ">>>>,
       <<<<"&", "a", "m", "p", ";">>, <<"&">>>>,
       <<<<"&", "l", "t", ";">>, <<"<">>>>,
       <<<<"&", "g", "t", ";">>, <<">">>>>,
       <<<<"&", "q", "u", "o", "t", ";">>, <<"\"">> >>,
       <<<<"&", "#", "3", "9", ";">>, <<"'">>>>,
       <<<<"&", "a", "u", "m", "l", ";">>, <<"ä">>>>,
       <<<<"&", "a", "r", "i", "n", "g", ";">>, <<"å">>>>,
       <<<<"&", "o", "u", "m", "l", ";">>, <<"ö">>>>,
       <<<<"&", "A", "u", "m", "l", ";">>, <<"Ä">>>>,
       <<<<"&", "A", "r", "i", "n", "g", ";">>, <<"Å">>>>,
       <<<<"&", "O", "u", "m", "l", ";">>, <<"Ö">>>> >>

RECURSIVE DecodeEntities(_, _)
DecodeEntities(s, n) ==
    IF n > Len(Entities) THEN s
    ELSE DecodeEntities(Replace(s, Entities[n][1], Entities[n][2]), n + 1)

\* The re.sub calls of clean_html in order: the pattern, the replacement
\* and the string the call reads.  The first call binds text, and the second
\* reads html_text again and binds text anew.
Substitutions ==
    << <<"script", <<>>,               "html_text">>,
       <<"style",  <<>>,               "html_text">>,
       <<"br",     <<"\n">>,           "text">>,
       <<"/p",     <<"\n", "\n">>,     "text">>,
       <<"/div",   <<"\n">>,           "text">>,
       <<"/h",     <<"\n", "\n">>,     "text">>,
       <<"tag",    <<>>,               "text">>,
       <<"blank",  <<"\n", "\n">>,     "text">>,
       <<"spaces", <<" ">>,            "text">> >>

\* text (txt) after the re.sub calls from the n-th on.
RECURSIVE Substitute(_, _, _)
Substitute(html_text, txt, n) ==
    IF n > Len(Substitutions) THEN txt
    ELSE Substitute(html_text,
                    ReSub(Substitutions[n][1], Substitutions[n][2],
                          IF Substitutions[n][3] = "html_text" THEN html_text ELSE txt),
                    n + 1)

\* clean_html(html_text)
clean_html(html_text) ==
    IF html_text = <<>> THEN <<>>
    ELSE Strip(DecodeEntities(Substitute(html_text, html_text, 1), 1))

(***************************************************************************)
(* parse_katolska_readings.  A page is a sequence of blocks; Render gives  *)
(* the markup of a block, and the patterns of the parser, which all anchor *)
(* on the opening of a block, are computed over the block sequence.  Text  *)
(* handed to clean_html is the rendered markup.                            *)
(*   hdr     <p><strong>label</strong> ref</p>                             *)
(*   marker  <p><em>Ur Lektionarium ref</em></p>     (ref is the year)     *)
(*   p       <p>ref</p>                                                    *)
(*   resp    <p>R. ref</p>                                                 *)
(*   eller   <p>eller</p>                                                  *)
(*   div     <div>ref</div>                                                *)
(*   h1      <h1>ref</h1>                                                  *)
(*   main    <main>              /main  </main>                            *)
(***************************************************************************)

Block(k, label, ref) == [k |-> k, label |-> label, ref |-> ref]

LabelChars(label) ==
    CASE label = "Första läsningen"     -> <<"F", "ö", "r", "s", "t", "a", " ", "l", "ä", "s", "n", "i", "n", "g", "e", "n">>
      [] label = "Läsning"              -> <<"L", "ä", "s", "n", "i", "n", "g">>
      [] label = "Responsoriepsalm"     -> <<"R", "e", "s", "p", "o", "n", "s", "o", "r", "i", "e", "p", "s", "a", "l", "m">>
      [] label = "Andra läsningen"      -> <<"A", "n", "d", "r", "a", " ", "l", "ä", "s", "n", "i", "n", "g", "e", "n">>
      [] label = "2:a läsningen"        -> <<"2", ":", "a", " ", "l", "ä", "s", "n", "i", "n", "g", "e", "n">>
      [] label = "Evangelium"           -> <<"E", "v", "a", "n", "g", "e", "l", "i", "u", "m">>
      [] label = "Halleluja"            -> <<"H", "a", "l", "l", "e", "l", "u", "j", "a">>
      [] label = "Lovsång"              -> <<"L", "o", "v", "s", "å", "n", "g">>
      [] label = "Vers före evangeliet" -> <<"V", "e", "r", "s", " ", "f", "ö", "r", "e", " ", "e", "v", "a", "n", "g", "e", "l", "i", "e", "t">>

Render(b) ==
    CASE b.k = "hdr"    -> <<"<", "p", ">", "<", "s", "t", "r", "o", "n", "g", ">">> \o LabelChars(b.label) \o <<"<", "/", "s", "t", "r", "o", "n", "g", ">">>
                           \o (IF b.ref = <<>> THEN <<>> ELSE <<" ">> \o b.ref) \o <<"<", "/", "p", ">">>
      [] b.k = "marker" -> <<"<", "p", ">", "<", "e", "m", ">", "U", "r", " ", "L", "e", "k", "t", "i", "o", "n", "a", "r", "i", "u", "m", " ">> \o b.ref \o <<"<", "/", "e", "m", ">", "<", "/", "p", ">">>
      [] b.k = "p"      -> <<"<", "p", ">">> \o b.ref \o <<"<", "/", "p", ">">>
      [] b.k = "resp"   -> <<"<", "p", ">", "R", ".", " ">> \o b.ref \o <<"<", "/", "p", ">">>
      [] b.k = "eller"  -> <<"<", "p", ">", "e", "l", "l", "e", "r", "<", "/", "p", ">">>
      [] b.k = "div"    -> <<"<", "d", "i", "v", ">">> \o b.ref \o <<"<", "/", "d", "i", "v", ">">>
      [] b.k = "h1"     -> <<"<", "h", "1", ">">> \o b.ref \o <<"<", "/", "h", "1", ">">>
      [] b.k = "main"   -> <<"<", "m", "a", "i", "n", ">">>
      [] b.k = "/main"  -> <<"<", "/", "m", "a", "i", "n", ">">>

RECURSIVE RenderAll(_)
RenderAll(doc) ==
    IF doc = <<>> THEN <<>> ELSE Render(Head(doc)) \o RenderAll(Tail(doc))

\* Python's 'sub in s'.
Contains(s, sub) == \E i \in 1..Len(s) : StartsWithAt(s, sub, i)

\* Least element of a non-empty set of indices.
Min(J) == CHOOSE j \in J : \A k \in J : j <= k

\* re.search(r'<h1[^>]*>(.*?)</h1>', html): group(1) of the first h1.
TitleOf(html) ==
    LET H == {j \in 1..Len(html) : html[j].k = "h1"}
    IN IF H = {} THEN <<>> ELSE clean_html(html[Min(H)].ref)

\* re.search(r'<main[^>]*>(.*?)</main>', html): the content of the first
\* main element when it is closed, the whole page otherwise.
MainContent(html) ==
    LET O == {j \in 1..Len(html) : html[j].k = "main"}
    IN IF O = {} THEN html
       ELSE LET C == {j \in (Min(O) + 1)..Len(html) : html[j].k = "/main"}
            IN IF C = {} THEN html ELSE SubSeq(html, Min(O) + 1, Min(C) - 1)

\* <p>\s*<strong>label</strong>\s*([^<]+)</p> : a header with a reference.
IsHeader(b, labels) == b.k = "hdr" /\ b.label \in labels /\ b.ref # <<>>

\* The lookahead that ends a body: <p>\s*<strong>(?:labels)</strong>, or the
\* opening of a block of one of the kinds.
IsStop(b, labels, kinds) == (b.k = "hdr" /\ b.label \in labels) \/ b.k \in kinds

\* list(re.finditer(header ... (.*?)(?=stops|$), html)): each match is a
\* header and the blocks up to the next stop; the scan resumes at the stop.
RECURSIVE FindIter(_, _, _, _, _)
FindIter(html, labels, stopLabels, stopKinds, i) ==
    LET H == {j \in i..Len(html) : IsHeader(html[j], labels)}
    IN IF H = {} THEN <<>>
       ELSE LET h == Min(H)
                St == {j \in (h + 1)..Len(html) : IsStop(html[j], stopLabels, stopKinds)}
                e == IF St = {} THEN Len(html) + 1 ELSE Min(St)
            IN <<[start |-> h, end |-> e]>> \o FindIter(html, labels, stopLabels, stopKinds, e)

\* A selection that always takes the first match.
SelectMatch_First(matches, has_lectionary_versions) == matches[1]

\* match = matches[-1] if has_lectionary_versions and len(matches) > 1
\*         else matches[0]
SelectMatch(matches, has_lectionary_versions) ==
    IF has_lectionary_versions /\ Len(matches) > 1
    THEN matches[Len(matches)]
    ELSE matches[1]

\* reference = clean_html(match.group(1)).strip()
\* text = clean_html(match.group(2)).strip()
ReadingOf(html, match) ==
    [reference |-> Strip(clean_html(html[match.start].ref)),
     text      |-> Strip(clean_html(RenderAll(SubSeq(html, match.start + 1, match.end - 1))))]

EmptyReading == [reference |-> <<>>, text |-> <<>>]

EmptyPsalm == [reference |-> <<>>, text |-> <<>>, response |-> <<>>]

\* list(re.finditer(psalm_header_pattern, html)): the headers alone.
RECURSIVE FindHeaders(_, _, _)
FindHeaders(html, labels, i) ==
    LET H == {j \in i..Len(html) : IsHeader(html[j], labels)}
    IN IF H = {} THEN <<>>
       ELSE <<[start |-> Min(H), end |-> Min(H) + 1]>> \o FindHeaders(html, labels, Min(H) + 1)

PsalmStopLabels == {"Halleluja", "Lovsång", "Vers före evangeliet", "Evangelium", "Läsning"}

\* psalm_section: from the end of the selected header to the first
\* psalm_end_pattern match, or to the end of the page.
PsalmSection(html, psalm_start) ==
    LET St == {j \in psalm_start..Len(html) : IsStop(html[j], PsalmStopLabels, {})}
    IN SubSeq(html, psalm_start, (IF St = {} THEN Len(html) + 1 ELSE Min(St)) - 1)

\* A content that is the whole section, markers or not.
PsalmContent_Whole(psalm_section) == psalm_section

\* content: the part of psalm_section after the first marker paragraph
\* <p>\s*<em>Ur Lektionarium[^<]*2022[^<]*</em>\s*</p>, when the section
\* contains "Ur Lektionarium" and "2022"; psalm_section otherwise.
PsalmContent(psalm_section) ==
    IF /\ Contains(RenderAll(psalm_section), <<"U", "r", " ", "L", "e", "k", "t", "i", "o", "n", "a", "r", "i", "u", "m">>)
       /\ Contains(RenderAll(psalm_section), <<"2", "0", "2", "2">>)
    THEN LET M == {j \in 1..Len(psalm_section) :
                      /\ psalm_section[j].k = "marker"
                      /\ Contains(psalm_section[j].ref, <<"2", "0", "2", "2">>)}
         IN IF M = {} THEN psalm_section
            ELSE SubSeq(psalm_section, Min(M) + 1, Len(psalm_section))
    ELSE psalm_section

\* re.search(r'<p>\s*R\.\s*(.+?)</p>', content): the first response line.
PsalmResponse(content) ==
    LET R == {j \in 1..Len(content) : content[j].k = "resp" /\ content[j].ref # <<>>}
    IN IF R = {} THEN <<>> ELSE Strip(clean_html(content[Min(R)].ref))

PsalmOf(html, has_lectionary_versions) ==
    LET psalm_header_matches == FindHeaders(html, {"Responsoriepsalm"}, 1)
    IN IF psalm_header_matches = <<>> THEN EmptyPsalm
       ELSE LET psalm_header_match == SelectMatch(psalm_header_matches, has_lectionary_versions)
                content == PsalmContent(PsalmSection(html, psalm_header_match.end))
            IN [reference |-> Strip(clean_html(html[psalm_header_match.start].ref)),
                text      |-> Strip(clean_html(RenderAll(content))),
                response  |-> PsalmResponse(content)]

FirstStopLabels ==
    {"Responsoriepsalm", "Halleluja", "Evangelium", "Andra läsningen", "Första läsningen"}

ReadingStopLabels == {"Responsoriepsalm", "Halleluja", "Evangelium", "Läsning"}

SecondLabels == {"Andra läsningen", "2:a läsningen"}

SecondStopLabels == {"Halleluja", "Evangelium", "Andra läsningen", "2:a läsningen"}

first_reading_matches(html) ==
    FindIter(html, {"Första läsningen"}, FirstStopLabels, {"marker"}, 1)

reading_matches(html) ==
    FindIter(html, {"Läsning"}, ReadingStopLabels, {"marker"}, 1)

second_matches(html) ==
    FindIter(html, SecondLabels, SecondStopLabels, {"marker"}, 1)

\* The gospel body also ends at <p>eller and at <div, <footer, <aside.
gospel_matches(html) ==
    FindIter(html, {"Evangelium"}, {"Evangelium"}, {"eller", "div"}, 1)

\* A first reading that looks for "Läsning" before "Första läsningen".
FirstReadingOf_PlainFirst(html, has_lectionary_versions) ==
    IF reading_matches(html) # <<>>
    THEN ReadingOf(html, SelectMatch(reading_matches(html), has_lectionary_versions))
    ELSE IF first_reading_matches(html) # <<>>
    THEN ReadingOf(html, SelectMatch(first_reading_matches(html), has_lectionary_versions))
    ELSE EmptyReading

\* "Första läsningen" if found, otherwise "Läsning".
FirstReadingOf(html, has_lectionary_versions) ==
    IF first_reading_matches(html) # <<>>
    THEN ReadingOf(html, SelectMatch(first_reading_matches(html), has_lectionary_versions))
    ELSE IF reading_matches(html) # <<>>
    THEN ReadingOf(html, SelectMatch(reading_matches(html), has_lectionary_versions))
    ELSE EmptyReading

\* A section that is None in both fields when its header is missing.
SectionOf_NoneWhenMissing(html, matches, has_lectionary_versions) ==
    IF matches # <<>>
    THEN ReadingOf(html, SelectMatch(matches, has_lectionary_versions))
    ELSE [reference |-> None, text |-> None]

SectionOf(html, matches, has_lectionary_versions) ==
    IF matches # <<>>
    THEN ReadingOf(html, SelectMatch(matches, has_lectionary_versions))
    ELSE EmptyReading

\* has_lectionary_versions = "Ur Lektionarium" in html
HasLectionaryVersions(html) == Contains(RenderAll(html), <<"U", "r", " ", "L", "e", "k", "t", "i", "o", "n", "a", "r", "i", "u", "m">>)

parse_katolska_readings(page) ==
    LET html == MainContent(page)
        has_lectionary_versions == HasLectionaryVersions(html)
    IN [first_reading      |-> FirstReadingOf(html, has_lectionary_versions),
        responsorial_psalm |-> PsalmOf(html, has_lectionary_versions),
        second_reading     |-> SectionOf(html, second_matches(html), has_lectionary_versions),
        gospel             |-> SectionOf(html, gospel_matches(html), has_lectionary_versions),
        title              |-> TitleOf(page)]

(***************************************************************************)
(* ordinal and parse_martyrology_for_day.  A martyrology page is a         *)
(* sequence of blocks h2 (<h2>ref</h2>), p (<p>ref</p>) and hr (<hr>).     *)
(***************************************************************************)

\* str(n) for n >= 0
RECURSIVE Digits(_)
Digits(n) ==
    IF n < 10 THEN <<DigitChars[n + 1]>>
    ELSE Digits(n \div 10) \o <<DigitChars[(n % 10) + 1]>>

\* An ordinal that looks at the last digit alone.
ordinal_LastDigit(n) ==
    Digits(n) \o (CASE n % 10 = 1 -> <<"s", "t">>
                    [] n % 10 = 2 -> <<"n", "d">>
                    [] n % 10 = 3 -> <<"r", "d">>
                    [] OTHER      -> <<"t", "h">>)

ordinal(n) ==
    IF 11 <= n /\ n <= 13 THEN Digits(n) \o <<"t", "h">>
    ELSE Digits(n) \o (CASE n % 10 = 1 -> <<"s", "t">>
                         [] n % 10 = 2 -> <<"n", "d">>
                         [] n % 10 = 3 -> <<"r", "d">>
                         [] OTHER      -> <<"t", "h">>)

ENGLISH_MONTHS ==
    << <<"j", "a", "n", "u", "a", "r", "y">>, <<"f", "e", "b", "r", "u", "a", "r", "y">>, <<"m", "a", "r", "c", "h">>, <<"a", "p", "r", "i", "l">>, <<"m", "a", "y">>, <<"j", "u", "n", "e">>,
       <<"j", "u", "l", "y">>, <<"a", "u", "g", "u", "s", "t">>, <<"s", "e", "p", "t", "e", "m", "b", "e", "r">>, <<"o", "c", "t", "o", "b", "e", "r">>, <<"n", "o", "v", "e", "m", "b", "e", "r">>, <<"d", "e", "c", "e", "m", "b", "e", "r">> >>

\* str.capitalize()
Capitalize(s) ==
    IF s = <<>> THEN <<>>
    ELSE <<Upper(s[1])>> \o [k \in 1..(Len(s) - 1) |-> Lower(s[k + 1])]

LowerAll(s) == [k \in 1..Len(s) |-> Lower(s[k])]

\* A pattern that is a sequence of pieces, matched at index i ignoring case:
\* <<"lit", chars>>, <<"opt", chars>> (chars?), <<"ws+">> (\s+), <<"ws*">>
\* (\s*), <<"w+">> (\w+).  The index after the match, or 0.  Adjacent
\* pieces match disjoint characters, so the greedy match is the only one.
RECURSIVE MatchPieces(_, _, _, _)
MatchPieces(s, i, pieces, n) ==
    IF n > Len(pieces) THEN i
    ELSE LET p == pieces[n]
         IN CASE p[1] = "lit" ->
                   IF StartsWithAtCI(s, LowerAll(p[2]), i)
                   THEN MatchPieces(s, i + Len(p[2]), pieces, n + 1) ELSE 0
              [] p[1] = "opt" ->
                   IF StartsWithAtCI(s, LowerAll(p[2]), i)
                   THEN MatchPieces(s, i + Len(p[2]), pieces, n + 1)
                   ELSE MatchPieces(s, i, pieces, n + 1)
              [] p[1] = "ws+" ->
                   IF RunEnd(s, Whitespace, i) > i
                   THEN MatchPieces(s, RunEnd(s, Whitespace, i), pieces, n + 1) ELSE 0
              [] p[1] = "ws*" ->
                   MatchPieces(s, RunEnd(s, Whitespace, i), pieces, n + 1)
              [] p[1] = "w+" ->
                   LET J == {j \in i..Len(s) : s[j] \notin WordChars}
                       r == IF J = {} THEN Len(s) + 1 ELSE Min(J)
                   IN IF r > i THEN MatchPieces(s, r, pieces, n + 1) ELSE 0

\* A heading test that looks only at how the text of an h2 ends.
IsDayHeading_DigitsShared(b, day_ordinal, month_capitalized) ==
    /\ b.k = "h2"
    /\ Len(b.ref) >= Len(day_ordinal)
    /\ SubSeq(b.ref, Len(b.ref) - Len(day_ordinal) + 1, Len(b.ref)) = day_ordinal

\* <h2>\s*{month_capitalized}\s+{day_ordinal}\s*</h2> on the text of an h2
IsDayHeading(b, day_ordinal, month_capitalized) ==
    /\ b.k = "h2"
    /\ MatchPieces(b.ref, 1,
                   << <<"ws*">>, <<"lit", month_capitalized>>, <<"ws+">>,
                      <<"lit", day_ordinal>>, <<"ws*">> >>, 1) = Len(b.ref) + 1

\* rf'This Day,?\s+the\s+\w+\s+Day\s+of\s+{month_capitalized}\s*'
IntroPattern(month_capitalized) ==
    << <<"lit", <<"T", "h", "i", "s", " ", "D", "a", "y">>>>, <<"opt", <<",">>>>, <<"ws+">>, <<"lit", <<"t", "h", "e">>>>,
       <<"ws+">>, <<"w+">>, <<"ws+">>, <<"lit", <<"D", "a", "y">>>>, <<"ws+">>,
       <<"lit", <<"o", "f">>>>, <<"ws+">>, <<"lit", month_capitalized>>, <<"ws*">> >>

\* re.sub(intro pattern, '', text), scanning from i
RECURSIVE RemoveIntroFrom(_, _, _)
RemoveIntroFrom(s, month_capitalized, i) ==
    LET M == {j \in i..Len(s) : MatchPieces(s, j, IntroPattern(month_capitalized), 1) > 0}
    IN IF M = {} THEN SubSeq(s, i, Len(s))
       ELSE SubSeq(s, i, Min(M) - 1)
            \o RemoveIntroFrom(s, month_capitalized,
                               MatchPieces(s, Min(M), IntroPattern(month_capitalized), 1))

RenderMartyrologyBlock(b) ==
    CASE b.k = "h2" -> <<"<", "h", "2", ">">> \o b.ref \o <<"<", "/", "h", "2", ">">>
      [] b.k = "p"  -> <<"<", "p", ">">> \o b.ref \o <<"<", "/", "p", ">">>
      [] b.k = "hr" -> <<"<", "h", "r", ">">>

RECURSIVE RenderMartyrology(_)
RenderMartyrology(html) ==
    IF html = <<>> THEN <<>>
    ELSE RenderMartyrologyBlock(Head(html)) \o RenderMartyrology(Tail(html))

parse_martyrology_for_day(html, day, month_name) ==
    LET day_ordinal == ordinal(day)
        month_capitalized == Capitalize(month_name)
        H == {j \in 1..Len(html) : IsDayHeading(html[j], day_ordinal, month_capitalized)}
    IN IF H = {} THEN <<>>
       ELSE LET St == {j \in (Min(H) + 1)..Len(html) : html[j].k \in {"h2", "hr"}}
                e == IF St = {} THEN Len(html) + 1 ELSE Min(St)
                content == RenderMartyrology(SubSeq(html, Min(H) + 1, e - 1))
                txt == clean_html(content)
            IN Strip(RemoveIntroFrom(txt, month_capitalized, 1))

(***************************************************************************)
(* Dates and URLs.  date.today() is a day number: day 1 is Friday          *)
(* 2026-02-13 (ISO week 7), day 2 the Saturday, and so on within February. *)
(***************************************************************************)

\* Days the clock can reach.
MaxDate == 2

Dates == 1..MaxDate

\* last_update = None
NoDate == 0

\* target_date.isocalendar()[1], .weekday(), .day, .month
DateFields(d) ==
    [week    |-> 7 + ((d + 3) \div 7),
     weekday |-> (d + 3) % 7,
     day     |-> 12 + d,
     month   |-> 2]

\* today.isoformat()
IsoFormat(d) == <<"2", "0", "2", "6", "-", "0", "2", "-">> \o Digits(DateFields(d).day)

KATOLSKA_BASE_URL ==
    <<"h", "t", "t", "p", "s", ":", "/", "/", "w", "w", "w", ".", "k", "a", "t", "o", "l", "s", "k", "a", "k", "y", "r", "k", "a", "n", ".", "s", "e", "/", "f", "o", "r", "s", "a", "m", "l", "i", "n", "g", "s", "l", "i", "v", "/", "o", "r", "d", "o", "-", "o", "c", "h", "-", "v", "e", "c", "k", "a", "n", "s", "-", "l", "a", "s", "n", "i", "n", "g", "a", "r">>

SWEDISH_WEEKDAYS ==
    << <<"m", "a", "n", "d", "a", "g">>, <<"t", "i", "s", "d", "a", "g">>, <<"o", "n", "s", "d", "a", "g">>, <<"t", "o", "r", "s", "d", "a", "g">>, <<"f", "r", "e", "d", "a", "g">>, <<"l", "o", "r", "d", "a", "g">>,
       <<"s", "o", "n", "d", "a", "g">> >>

SWEDISH_MONTHS ==
    << <<"j", "a", "n", "u", "a", "r", "i">>, <<"f", "e", "b", "r", "u", "a", "r", "i">>, <<"m", "a", "r", "s">>, <<"a", "p", "r", "i", "l">>, <<"m", "a", "j">>, <<"j", "u", "n", "i">>,
       <<"j", "u", "l", "i">>, <<"a", "u", "g", "u", "s", "t", "i">>, <<"s", "e", "p", "t", "e", "m", "b", "e", "r">>, <<"o", "k", "t", "o", "b", "e", "r">>, <<"n", "o", "v", "e", "m", "b", "e", "r">>, <<"d", "e", "c", "e", "m", "b", "e", "r">> >>

build_katolska_url(target_date) ==
    LET week_number == DateFields(target_date).week
        weekday_name == SWEDISH_WEEKDAYS[DateFields(target_date).weekday + 1]
        day == DateFields(target_date).day
        month_name == SWEDISH_MONTHS[DateFields(target_date).month]
    IN KATOLSKA_BASE_URL \o <<"/", "v", "e", "c", "k", "a", "-">> \o Digits(week_number) \o <<"/">> \o weekday_name
       \o <<"-", "d", "e", "n", "-">> \o Digits(day) \o <<"-">> \o month_name

\* The body of _find_day_url_from_week_page on a week page that answered
\* 200.  The page is the sequence of its href values; the pattern
\* href="([^"]*/{weekday_name}-den-{day}-[^"]+)" matches the first href that
\* holds the slug start followed by at least one more character.
DayUrlInWeekPage(html, target_date) ==
    LET weekday_name == SWEDISH_WEEKDAYS[DateFields(target_date).weekday + 1]
        day == DateFields(target_date).day
        slug == <<"/">> \o weekday_name \o <<"-", "d", "e", "n", "-">> \o Digits(day) \o <<"-">>
        Matches(href) ==
            \E i \in 1..Len(href) :
                StartsWithAtCI(href, slug, i) /\ i + Len(slug) <= Len(href)
        M == {j \in 1..Len(html) : Matches(html[j])}
    IN IF M = {} THEN None
       ELSE LET day_path == html[Min(M)]
            IN IF day_path[1] = "/"
               THEN <<"h", "t", "t", "p", "s", ":", "/", "/", "w", "w", "w", ".", "k", "a", "t", "o", "l", "s", "k", "a", "k", "y", "r", "k", "a", "n", ".", "s", "e">> \o day_path
               ELSE day_path

\* What the server can answer for the week page: status 200 with a page, a
\* status other than 200, or an exception (a timeout among them).
NavMisspelled ==
    [d \in Dates |->
        <<"/", "f", "o", "r", "s", "a", "m", "l", "i", "n", "g", "s", "l", "i", "v", "/", "o", "r", "d", "o", "-", "o", "c", "h", "-", "v", "e", "c", "k", "a", "n", "s", "-", "l", "a", "s", "n", "i", "n", "g", "a", "r", "/", "v", "e", "c", "k", "a", "-">>
        \o Digits(DateFields(d).week) \o <<"/">>
        \o SWEDISH_WEEKDAYS[DateFields(d).weekday + 1] \o <<"-", "d", "e", "n", "-">>
        \o Digits(DateFields(d).day) \o <<"-", "f", "e", "b", "u", "r", "a", "r", "i">>]

NavAbsolute == [d \in Dates |-> build_katolska_url(d)]

NavOtherDays ==
    << <<"/", "f", "o", "r", "s", "a", "m", "l", "i", "n", "g", "s", "l", "i", "v", "/", "o", "r", "d", "o", "-", "o", "c", "h", "-", "v", "e", "c", "k", "a", "n", "s", "-", "l", "a", "s", "n", "i", "n", "g", "a", "r", "/", "v", "e", "c", "k", "a", "-", "7", "/", "t", "o", "r", "s", "d", "a", "g", "-", "d", "e", "n", "-", "1", "2", "-", "f", "e", "b", "r", "u", "a", "r", "i">>,
       <<"/", "f", "o", "r", "s", "a", "m", "l", "i", "n", "g", "s", "l", "i", "v", "/", "o", "r", "d", "o", "-", "o", "c", "h", "-", "v", "e", "c", "k", "a", "n", "s", "-", "l", "a", "s", "n", "i", "n", "g", "a", "r", "/", "v", "e", "c", "k", "a", "-", "7", "/", "f", "r", "e", "d", "a", "g", "-", "d", "e", "n", "-", "1", "-", "f", "e", "b", "r", "u", "a", "r", "i">>,
       <<"/", "f", "o", "r", "s", "a", "m", "l", "i", "n", "g", "s", "l", "i", "v", "/", "o", "r", "d", "o", "-", "o", "c", "h", "-", "v", "e", "c", "k", "a", "n", "s", "-", "l", "a", "s", "n", "i", "n", "g", "a", "r", "/", "v", "e", "c", "k", "a", "-", "7", "/", "f", "r", "e", "d", "a", "g", "-", "d", "e", "n", "-", "1", "3", "-">>,
       <<"/", "f", "o", "r", "s", "a", "m", "l", "i", "n", "g", "s", "l", "i", "v", "/", "o", "r", "d", "o", "-", "o", "c", "h", "-", "v", "e", "c", "k", "a", "n", "s", "-", "l", "a", "s", "n", "i", "n", "g", "a", "r", "/", "v", "e", "c", "k", "a", "-", "7", "/", "l", "o", "r", "d", "a", "g", "-", "d", "e", "n", "-", "1", "4", "-">> >>

WeekPages == {NavMisspelled, NavAbsolute, NavOtherDays}

WeekResponses ==
    {[status |-> 200, html |-> h] : h \in WeekPages}
    \cup {[status |-> 404, html |-> <<>>], [status |-> 0, html |-> <<>>]}

\* _find_day_url_from_week_page(target_date), given the server's answer
\* (status 0 stands for an exception raised by the request).
find_day_url_from_week_page(response, target_date) ==
    IF response.status = 0 THEN None
    ELSE IF response.status # 200 THEN None
    ELSE DayUrlInWeekPage(response.html, target_date)

\* Readings pages the server can answer with.
PageWeekday ==
    << Block("h1", "", <<"F", "r", "e", "d", "a", "g">>), Block("main", "", <<>>),
       Block("hdr", "Läsning", <<"J", "a", "k", " ", "1", ":", "1">>), Block("p", "", <<"a">>),
       Block("hdr", "Responsoriepsalm", <<"P", "s", " ", "1">>), Block("resp", "", <<"v">>),
       Block("hdr", "Halleluja", <<>>),
       Block("hdr", "Evangelium", <<"M", "a", "r", "k", " ", "1", ":", "1">>), Block("p", "", <<"b">>),
       Block("/main", "", <<>>) >>

PageNoSections == << Block("p", "", <<"x">>) >>

SamplePages == {PageWeekday, PageNoSections}

ParsedPages == [h \in SamplePages |-> parse_katolska_readings(h)]

\* What the server can answer for the content page: a status (200 comes with
\* a page), a timeout, or another exception with its message str(e).
ExceptionMessages == {<<>>, <<"b", "o", "o", "m">>}

ContentResponses ==
    {[kind |-> "status", status |-> 200, html |-> h, message |-> <<>>] : h \in SamplePages}
    \cup {[kind |-> "status", status |-> s, html |-> <<>>, message |-> <<>>] : s \in {404, 500}}
    \cup {[kind |-> "timeout", status |-> 0, html |-> <<>>, message |-> <<>>]}
    \cup {[kind |-> "exception", status |-> 0, html |-> <<>>, message |-> m] :
             m \in ExceptionMessages}

\* self.data = None
NoData == [none |-> TRUE]

(***************************************************************************)
(* State                                                                   *)
(***************************************************************************)

VARIABLES
    today,          \* what date.today() returns
    data,           \* ReadingsCoordinator.data
    last_update,    \* ReadingsCoordinator.last_update
    error,          \* ReadingsCoordinator.error
    url,            \* ReadingsCoordinator.url
    pc,             \* where each caller of ReadingsCoordinator.async_refresh is
    call_today,     \* the local today of each call in progress
    req_url,        \* the URL of the content request each call has in flight
    log,            \* the last message async_refresh logged about a content fetch
    status_sensor,  \* ReadingsStatusSensor's native value
    serial,         \* TRUE when the callers never overlap
    week_seen,      \* history (serial runs): the week page answer each call in progress got
    ok_dates,       \* history (serial runs): the dates of the calls that took the 200 branch
    hit_dates,      \* history (serial runs): the dates of the calls that returned at the cache check
    episode,        \* history (overlapping runs): the calls since no call was in flight
    data_src,       \* history: the URL requested for the page self.data was parsed from
    failed_date,    \* history: the date of the call whose content request failed, when
                    \* no content request has succeeded since
    text,           \* MartyrologyCoordinator.text
    m_last_update,  \* MartyrologyCoordinator.last_update
    m_error,        \* MartyrologyCoordinator.error
    m_pc,           \* where the caller of MartyrologyCoordinator.async_refresh is
    m_call_today,   \* the local today of that call
    m_ok_dates,     \* history: the dates of the calls that took the 200 branch
    p_page,         \* the page handed to parse_katolska_readings
    p_result,       \* what it returned
    p_pc,
    c_html,         \* the text handed to clean_html
    c_once,         \* clean_html(c_html)
    c_twice,        \* clean_html(c_once)
    c_pc,
    d_html,         \* the page handed to parse_martyrology_for_day
    d_day,          \* its day
    d_month_name,   \* its month_name
    d_day_ordinal,  \* its local day_ordinal
    d_result,       \* what it returned
    d_pc,
    t_text,         \* the text handed to truncate_text
    t_max_length,   \* its max_length
    t_result,       \* what it returned
    t_pc

clock_vars == <<today>>

readings_vars ==
    <<data, last_update, error, url, pc, call_today, req_url, log, status_sensor,
      serial, week_seen, ok_dates, hit_dates, episode, data_src, failed_date>>

martyrology_vars == <<text, m_last_update, m_error, m_pc, m_call_today, m_ok_dates>>

parse_vars == <<p_page, p_result, p_pc>>

clean_vars == <<c_html, c_once, c_twice, c_pc>>

day_vars == <<d_html, d_day, d_month_name, d_day_ordinal, d_result, d_pc>>

truncate_vars == <<t_text, t_max_length, t_result, t_pc>>

vars ==
    <<clock_vars, readings_vars, martyrology_vars, parse_vars, clean_vars, day_vars,
      truncate_vars>>

(***************************************************************************)
(* ReadingsCoordinator and the sensors that poll it                        *)
(***************************************************************************)

\* async_setup_entry awaits one refresh, then adds the sensors; each sensor's
\* async_update awaits a refresh and then writes its value.  Two of the five
\* sensors that share the coordinator are callers: ReadingsStatusSensor, whose
\* value is kept, and SwedishFirstReadingSensor, whose value and attributes
\* copy the coordinator's getters and are not kept.
Callers == {"setup", "status", "first"}

Sensors == {"status", "first"}

InFlight(p) == pc[p] \in {"week", "content"}

\* Where a caller is once its refresh has returned.
Returned(p) == IF p = "setup" THEN "done" ELSE "idle"

\* Python truth of a str-or-None
Truthy(s) == s # None /\ s # <<>>

\* A cache check that holds on every date but the one of the data.
CacheValid_OtherDates(d, lu, now) == d # NoData /\ lu # now

\* if self.data and self.last_update == today: return
CacheValid(d, lu, now) == d # NoData /\ lu = now

\* A resolution that never looks at the week page.
ResolveUrl_Calculated(response, now) == build_katolska_url(now)

\* self.url = await self._find_day_url_from_week_page(today)
\* if not self.url: self.url = build_katolska_url(today)
ResolveUrl(response, now) ==
    IF Truthy(find_day_url_from_week_page(response, now))
    THEN find_day_url_from_week_page(response, now)
    ELSE build_katolska_url(now)

\* ResolveUrl for every answer and date.
ResolvedUrls == [r \in WeekResponses |-> [d \in Dates |-> ResolveUrl(r, d)]]

NotFoundMessage ==
    <<"S", "i", "d", "a", "n", " ", "h", "i", "t", "t", "a", "d", "e", "s", " ", "i", "n", "t", "e", " ", "(", "4", "0", "4", ")", " ", "-", " ", "l", "ä", "s", "n", "i", "n", "g", "a", "r", " ", "k", "a", "n", "s", "k", "e", " ", "i", "n", "t", "e", " ", "ä", "r", " ", "p", "u", "b", "l", "i", "c", "e", "r", "a", "d", "e", " ", "ä", "n">>

\* The try block of async_refresh on the answer to the content request:
\* the coordinator's fields afterwards, given the fields before.
ContentResult(f, response, now) ==
    CASE response.kind = "status" /\ response.status = 200 ->
            [data        |-> [readings |-> ParsedPages[response.html],
                              url      |-> f.url,
                              date     |-> IsoFormat(now)],
             last_update |-> now,
             error       |-> None,
             url         |-> f.url]
      [] response.kind = "status" /\ response.status = 404 ->
            [f EXCEPT !.error = NotFoundMessage]
      [] response.kind = "status" /\ response.status \notin {200, 404} ->
            [f EXCEPT !.error = <<"H", "T", "T", "P", " ">> \o Digits(response.status)]
      [] response.kind = "timeout" ->
            [f EXCEPT !.error = <<"T", "i", "m", "e", "o", "u", "t", " ", "v", "i", "d", " ", "h", "ä", "m", "t", "n", "i", "n", "g">>]
      [] response.kind = "exception" ->
            [f EXCEPT !.error = response.message]

\* The message logged for the answer.
ContentLog(response) ==
    CASE response.kind = "status" /\ response.status = 200 -> "Parsed Swedish readings"
      [] response.kind = "status" /\ response.status = 404 -> "Swedish readings page not found"
      [] response.kind = "status" /\ response.status \notin {200, 404} ->
            "Error fetching Swedish readings"
      [] response.kind = "timeout" -> "Timeout fetching Swedish readings"
      [] response.kind = "exception" -> "Exception fetching Swedish readings"

\* A status that looks at the data before the error.
StatusSensorUpdate_DataFirst(f) ==
    IF f.data # NoData THEN "OK"
    ELSE IF Truthy(f.error) THEN "Fel"
    ELSE "Väntar"

\* ReadingsStatusSensor.async_update, after the refresh has returned: the
\* native value (the icon follows it; the attributes copy the coordinator's
\* fields and are not kept).
StatusSensorUpdate(f) ==
    IF Truthy(f.error) THEN "Fel"
    ELSE IF f.data # NoData THEN "OK"
    ELSE "Väntar"

\* ReadingsCoordinator.get_first_reading, for the value d of self.data
get_first_reading(d) ==
    IF d = NoData THEN [reference |-> <<>>, text |-> <<>>]
    ELSE d.readings.first_reading

Fields == [data |-> data, last_update |-> last_update, error |-> error, url |-> url]

\* The sensor's write when caller p's refresh returns with the fields f.
SensorsAfter(p, f) ==
    status_sensor' = IF p = "status" THEN StatusSensorUpdate(f) ELSE status_sensor

\* History of the calls that fetch, kept in overlapping runs: calls is 1 for
\* a call begun with no call in flight, 2 once a second call has begun on
\* the same date while it was in flight, and 3 (nothing else kept) after
\* that; base is the cache the first call found.
NoEpisode == [calls |-> 0, date |-> NoDate, base |-> [data |-> NoData, last_update |-> NoDate]]

VoidEpisode == [NoEpisode EXCEPT !.calls = 3]

EpisodeAtBegin ==
    IF serial THEN episode
    ELSE IF \A q \in Callers : ~InFlight(q)
    THEN [calls |-> 1, date |-> today, base |-> [data |-> data, last_update |-> last_update]]
    ELSE IF episode.calls = 1 /\ episode.date = today
    THEN [episode EXCEPT !.calls = 2]
    ELSE VoidEpisode

EpisodeAtReturn(p) ==
    IF (\A q \in Callers \ {p} : ~InFlight(q)) /\ episode.calls # 2
    THEN NoEpisode
    ELSE episode

\* A caller enters async_refresh.  With today's data cached the call returns
\* at once; otherwise it requests the week page and suspends.
Begin(p) ==
    /\ pc[p] = "idle"
    /\ p \in Sensors => pc["setup"] = "done"
    /\ serial => \A q \in Callers : ~InFlight(q)
    /\ IF CacheValid(data, last_update, today)
       THEN /\ pc' = [pc EXCEPT ![p] = Returned(p)]
            /\ SensorsAfter(p, Fields)
            /\ hit_dates' = IF serial THEN hit_dates \cup {today} ELSE hit_dates
            /\ UNCHANGED <<call_today, episode>>
       ELSE /\ pc' = [pc EXCEPT ![p] = "week"]
            /\ call_today' = [call_today EXCEPT ![p] = today]
            /\ episode' = EpisodeAtBegin
            /\ UNCHANGED <<status_sensor, hit_dates>>
    /\ UNCHANGED <<today, data, last_update, error, url, req_url, log, serial, week_seen,
                   ok_dates, data_src, failed_date>>
    /\ UNCHANGED <<martyrology_vars, parse_vars, clean_vars, day_vars, truncate_vars>>

\* The week page request of caller p ends: self.url is set to the link found
\* or to the calculated URL, and the content request is made with it.
WeekReply(p, response) ==
    /\ pc[p] = "week"
    /\ url' = ResolvedUrls[response][call_today[p]]
    /\ req_url' = [req_url EXCEPT ![p] = url']
    /\ week_seen' = IF serial THEN [week_seen EXCEPT ![p] = response] ELSE week_seen
    /\ pc' = [pc EXCEPT ![p] = "content"]
    /\ UNCHANGED <<today, data, last_update, error, call_today, log, status_sensor,
                   serial, ok_dates, hit_dates, episode, data_src, failed_date>>
    /\ UNCHANGED <<martyrology_vars, parse_vars, clean_vars, day_vars, truncate_vars>>

\* The content request of caller p ends and the call returns.
ContentReply(p, response) ==
    /\ pc[p] = "content"
    /\ LET f == ContentResult(Fields, response, call_today[p])
       IN /\ data' = f.data
          /\ last_update' = f.last_update
          /\ error' = f.error
          /\ url' = f.url
          /\ SensorsAfter(p, f)
    /\ log' = ContentLog(response)
    /\ ok_dates' = IF serial /\ response.kind = "status" /\ response.status = 200
                   THEN ok_dates \cup {call_today[p]} ELSE ok_dates
    /\ data_src' = IF response.kind = "status" /\ response.status = 200
                   THEN req_url[p] ELSE data_src
    /\ failed_date' = IF response.kind = "status" /\ response.status = 200
                      THEN NoDate ELSE call_today[p]
    /\ pc' = [pc EXCEPT ![p] = Returned(p)]
    /\ req_url' = [req_url EXCEPT ![p] = None]
    /\ week_seen' = [week_seen EXCEPT ![p] = [status |-> 0, html |-> <<>>]]
    /\ call_today' = [call_today EXCEPT ![p] = NoDate]
    /\ episode' = EpisodeAtReturn(p)
    /\ UNCHANGED <<today, serial, hit_dates>>
    /\ UNCHANGED <<martyrology_vars, parse_vars, clean_vars, day_vars, truncate_vars>>

\* Midnight.
Tick ==
    /\ today < MaxDate
    /\ today' = today + 1
    /\ UNCHANGED <<readings_vars, martyrology_vars, parse_vars, clean_vars, day_vars, truncate_vars>>

MartyrologyInit ==
    /\ text = <<>> /\ m_last_update = NoDate /\ m_error = None /\ m_pc = "idle"
    /\ m_call_today = NoDate /\ m_ok_dates = {}

ParseIdle == p_page = <<>> /\ p_result = NoData /\ p_pc = "idle"

CleanIdle == c_html = <<>> /\ c_once = <<>> /\ c_twice = <<>> /\ c_pc = "idle"

DayIdle ==
    /\ d_html = <<>> /\ d_day = 1 /\ d_month_name = ENGLISH_MONTHS[1]
    /\ d_day_ordinal = <<>> /\ d_result = <<>> /\ d_pc = "idle"

TruncateIdle == t_text = <<>> /\ t_max_length = 0 /\ t_result = <<>> /\ t_pc = "idle"

ReadingsInit ==
    /\ today = 1
    /\ data = NoData /\ last_update = NoDate /\ error = None /\ url = None
    /\ pc = [p \in Callers |-> "idle"]
    /\ call_today = [p \in Callers |-> NoDate]
    /\ req_url = [p \in Callers |-> None]
    /\ log = "none"
    /\ status_sensor = "unknown"
    /\ week_seen = [p \in Callers |-> [status |-> 0, html |-> <<>>]]
    /\ ok_dates = {}
    /\ hit_dates = {}
    /\ episode = NoEpisode
    /\ data_src = None
    /\ failed_date = NoDate

Init ==
    /\ ReadingsInit
    /\ serial = FALSE
    /\ MartyrologyInit /\ ParseIdle /\ CleanIdle /\ DayIdle /\ TruncateIdle

Next ==
    \/ \E p \in Callers : Begin(p)
    \/ \E p \in Callers : \E response \in WeekResponses : WeekReply(p, response)
    \/ \E p \in Callers : \E response \in ContentResponses : ContentReply(p, response)
    \/ Tick

Spec == Init /\ [][Next]_vars

\* The same callers when the host never lets two updates overlap.
SerialInit ==
    /\ ReadingsInit
    /\ serial = TRUE
    /\ MartyrologyInit /\ ParseIdle /\ CleanIdle /\ DayIdle /\ TruncateIdle

SerialSpec == SerialInit /\ [][Next]_vars

\* The content request of caller p is answered 200.
ContentOk(p) ==
    \E response \in {r \in ContentResponses : r.kind = "status" /\ r.status = 200} :
        ContentReply(p, response)

\* What the scheduling gives: the host calls async_setup_entry and then polls
\* the sensors again and again, every request ends (an answer, an exception,
\* or the ClientTimeout of 30 s), and a content page that is requested again
\* and again is answered 200 at some time.
Fairness ==
    /\ WF_vars(\E p \in Callers : Begin(p))
    /\ WF_vars(\E p \in Callers : \E response \in WeekResponses : WeekReply(p, response))
    /\ WF_vars(\E p \in Callers : \E response \in ContentResponses : ContentReply(p, response))
    /\ SF_vars(\E p \in Callers : ContentOk(p))

LiveSpec == Init /\ [][Next]_vars /\ Fairness

\* The same, when the host never lets two updates overlap.
SerialLiveSpec == SerialInit /\ [][Next]_vars /\ Fairness

(***************************************************************************)
(* MartyrologyCoordinator.  Its callers are async_setup_entry and then     *)
(* SaintOfTheDaySensor.async_update, one call at a time.                   *)
(***************************************************************************)

\* Martyrology pages the server can answer with: the month's page, a page
\* where the day's heading is followed by the lead-in sentence alone, and a
\* page without a heading for the day.
MartyrologyMonthPage ==
    << Block("h2", "", <<"F", "e", "b", "r", "u", "a", "r", "y", " ", "1", "3", "t", "h">>),
       Block("p", "", <<"T", "h", "i", "s", " ", "D", "a", "y", ",", " ", "t", "h", "e", " ", "1", "3", "t", "h", " ", "D", "a", "y", " ", "o", "f", " ", "F", "e", "b", "r", "u", "a", "r", "y">>), Block("p", "", <<"a">>),
       Block("h2", "", <<"F", "e", "b", "r", "u", "a", "r", "y", " ", "1", "4", "t", "h">>), Block("p", "", <<"b">>),
       Block("h2", "", <<"F", "e", "b", "r", "u", "a", "r", "y", " ", "1", "5", "t", "h">>), Block("p", "", <<"c">>),
       Block("hr", "", <<>>) >>

MartyrologyLeadInPage ==
    << Block("h2", "", <<"F", "e", "b", "r", "u", "a", "r", "y", " ", "1", "3", "t", "h">>),
       Block("p", "", <<"T", "h", "i", "s", " ", "D", "a", "y", ",", " ", "t", "h", "e", " ", "1", "3", "t", "h", " ", "D", "a", "y", " ", "o", "f", " ", "F", "e", "b", "r", "u", "a", "r", "y">>),
       Block("h2", "", <<"F", "e", "b", "r", "u", "a", "r", "y", " ", "1", "4", "t", "h">>) >>

MartyrologyOtherPage ==
    << Block("h2", "", <<"F", "e", "b", "r", "u", "a", "r", "y", " ", "3", "r", "d">>), Block("p", "", <<"z">>),
       Block("h2", "", <<"F", "e", "b", "r", "u", "a", "r", "y", " ", "4", "t", "h">>), Block("p", "", <<"y">>) >>

\* A page that begins with the 14th.
MartyrologyLatePage ==
    << Block("h2", "", <<"F", "e", "b", "r", "u", "a", "r", "y", " ", "1", "4", "t", "h">>), Block("p", "", <<"d">>),
       Block("h2", "", <<"F", "e", "b", "r", "u", "a", "r", "y", " ", "1", "5", "t", "h">>), Block("p", "", <<"e">>) >>

MartyrologyPages ==
    {MartyrologyMonthPage, MartyrologyLeadInPage, MartyrologyOtherPage, MartyrologyLatePage}

MartyrologyResponses ==
    {[kind |-> "status", status |-> 200, html |-> h, message |-> <<>>] :
        h \in MartyrologyPages}
    \cup {[kind |-> "status", status |-> s, html |-> <<>>, message |-> <<>>] :
             s \in {404, 500, 503}}
    \cup {[kind |-> "timeout", status |-> 0, html |-> <<>>, message |-> <<>>]}
    \cup {[kind |-> "exception", status |-> 0, html |-> <<>>, message |-> m] :
             m \in ExceptionMessages}

\* if self.text and self.last_update == today: return
MartyrologyCacheValid(txt, lu, now) == Truthy(txt) /\ lu = now

\* The caller enters async_refresh: it returns at once on a cache hit, and
\* requests the month's page otherwise.
MartyrologyBegin ==
    /\ m_pc = "idle"
    /\ IF MartyrologyCacheValid(text, m_last_update, today)
       THEN UNCHANGED <<m_pc, m_call_today>>
       ELSE m_pc' = "fetch" /\ m_call_today' = today
    /\ UNCHANGED <<text, m_last_update, m_error, m_ok_dates>>
    /\ UNCHANGED <<clock_vars, readings_vars, parse_vars, clean_vars, day_vars, truncate_vars>>

\* The request ends and the call returns.
MartyrologyReply(response) ==
    /\ m_pc = "fetch"
    /\ CASE response.kind = "status" /\ response.status = 200 ->
              /\ text' = parse_martyrology_for_day(
                             response.html, DateFields(m_call_today).day,
                             ENGLISH_MONTHS[DateFields(m_call_today).month])
              /\ m_last_update' = m_call_today
              /\ m_error' = None
         [] response.kind = "status" /\ response.status # 200 ->
              /\ m_error' = <<"H", "T", "T", "P", " ">> \o Digits(response.status)
              /\ UNCHANGED <<text, m_last_update>>
         [] response.kind = "timeout" ->
              /\ m_error' = <<"T", "i", "m", "e", "o", "u", "t">>
              /\ UNCHANGED <<text, m_last_update>>
         [] response.kind = "exception" ->
              /\ m_error' = response.message
              /\ UNCHANGED <<text, m_last_update>>
    /\ m_ok_dates' = IF response.kind = "status" /\ response.status = 200
                     THEN m_ok_dates \cup {m_call_today} ELSE m_ok_dates
    /\ m_pc' = "idle"
    /\ m_call_today' = NoDate
    /\ UNCHANGED <<clock_vars, readings_vars, parse_vars, clean_vars, day_vars, truncate_vars>>

MartyrologyNext ==
    \/ MartyrologyBegin
    \/ \E response \in MartyrologyResponses : MartyrologyReply(response)
    \/ Tick

MartyrologySpecInit ==
    /\ ReadingsInit /\ serial = TRUE
    /\ MartyrologyInit /\ ParseIdle /\ CleanIdle /\ DayIdle /\ TruncateIdle

MartyrologySpec == MartyrologySpecInit /\ [][MartyrologyNext]_vars

(***************************************************************************)
(* parse_katolska_readings applied to bounded pages                        *)
(***************************************************************************)

\* Blocks per page.
MaxBlocks == 3

Marker2022 == Block("marker", "", <<"2", "0", "2", "2">>)

ParseBlocks ==
    {Block("hdr", l, r) :
        l \in {"Första läsningen", "Läsning", "Responsoriepsalm", "Andra läsningen",
               "Evangelium"},
        r \in {<<"1">>, <<"2">>}}
    \cup {Marker2022, Block("p", "", <<"a">>)}

BoundedPages == UNION {[1..n -> ParseBlocks] : n \in 0..MaxBlocks}

\* The bounded pages, and the same inside a main element that is followed
\* by a marker paragraph.
ParsePages ==
    BoundedPages
    \cup {<<Block("main", "", <<>>)>> \o d \o <<Block("/main", "", <<>>), Marker2022>> :
             d \in BoundedPages}

ParseInit ==
    /\ p_page \in ParsePages /\ p_result = NoData /\ p_pc = "idle"
    /\ ReadingsInit /\ serial = TRUE
    /\ MartyrologyInit /\ CleanIdle /\ DayIdle /\ TruncateIdle

ParseCall ==
    /\ p_pc = "idle"
    /\ p_result' = parse_katolska_readings(p_page)
    /\ p_pc' = "done"
    /\ UNCHANGED <<p_page, clock_vars, readings_vars, martyrology_vars, clean_vars, day_vars, truncate_vars>>

ParseNext == ParseCall

ParseSpec == ParseInit /\ [][ParseNext]_vars

(***************************************************************************)
(* parse_katolska_readings applied to pages with one psalm header          *)
(***************************************************************************)

\* Blocks after the psalm header.
MaxPsalmBlocks == 4

Marker1994 == Block("marker", "", <<"1", "9", "9", "4">>)

PsalmBlocks ==
    {Marker1994, Marker2022, Block("resp", "", <<"v">>), Block("resp", "", <<"w">>),
     Block("p", "", <<"a">>), Block("hdr", "Halleluja", <<>>)}

PsalmPages ==
    {<<Block("hdr", "Responsoriepsalm", <<"1">>)>> \o d :
        d \in UNION {[1..n -> PsalmBlocks] : n \in 0..MaxPsalmBlocks}}

PsalmInit ==
    /\ p_page \in PsalmPages /\ p_result = NoData /\ p_pc = "idle"
    /\ ReadingsInit /\ serial = TRUE
    /\ MartyrologyInit /\ CleanIdle /\ DayIdle /\ TruncateIdle

PsalmSpec == PsalmInit /\ [][ParseNext]_vars

(***************************************************************************)
(* clean_html applied to bounded texts, once and to its own result         *)
(***************************************************************************)

\* Lexemes per text.
MaxLexemes == 3

Lexemes ==
    { <<"<", "s", "c", "r", "i", "p", "t", ">">>, <<"<", "/", "s", "c", "r", "i", "p", "t", ">">>, <<"<", "s", "t", "y", "l", "e", ">">>, <<"<", "/", "s", "t", "y", "l", "e", ">">>, <<"j">>, <<"b">>,
      <<"&", "a", "m", "p", ";">>, <<"n", "b", "s", "p", ";">>, <<"&", "n", "b", "s", "p", ";">>, <<"&", "l", "t", ";">>, <<"&", "g", "t", ";">>, <<" ">>, <<"\n">>, <<"<", "/", "p", ">">> }

RECURSIVE Concat(_)
Concat(ss) == IF ss = <<>> THEN <<>> ELSE Head(ss) \o Concat(Tail(ss))

BoundedTexts == {Concat(ss) : ss \in UNION {[1..n -> Lexemes] : n \in 0..MaxLexemes}}

CleanInit ==
    /\ c_html \in BoundedTexts /\ c_once = <<>> /\ c_twice = <<>> /\ c_pc = "idle"
    /\ ReadingsInit /\ serial = TRUE
    /\ MartyrologyInit /\ ParseIdle /\ DayIdle /\ TruncateIdle

CleanOnce ==
    /\ c_pc = "idle"
    /\ c_once' = clean_html(c_html)
    /\ c_pc' = "once"
    /\ UNCHANGED <<c_html, c_twice, clock_vars, readings_vars, martyrology_vars, parse_vars,
                   day_vars, truncate_vars>>

CleanTwice ==
    /\ c_pc = "once"
    /\ c_twice' = clean_html(c_once)
    /\ c_pc' = "twice"
    /\ UNCHANGED <<c_html, c_once, clock_vars, readings_vars, martyrology_vars, parse_vars,
                   day_vars, truncate_vars>>

CleanNext == CleanOnce \/ CleanTwice

CleanSpec == CleanInit /\ [][CleanNext]_vars

(***************************************************************************)
(* parse_martyrology_for_day applied to bounded pages and to every day     *)
(***************************************************************************)

\* Blocks per martyrology page.
MaxDayBlocks == 3

\* Days of a month.
MaxDay == 31

LeadInParagraph == Block("p", "", <<"T", "h", "i", "s", " ", "D", "a", "y", ",", " ", "t", "h", "e", " ", "1", "3", "t", "h", " ", "D", "a", "y", " ", "o", "f", " ", "F", "e", "b", "r", "u", "a", "r", "y">>)

DayBlocks ==
    {Block("h2", "", r) :
        r \in {<<"F", "e", "b", "r", "u", "a", "r", "y", " ", "3", "r", "d">>, <<"F", "e", "b", "r", "u", "a", "r", "y", " ", "1", "3", "t", "h">>, <<"F", "e", "b", "r", "u", "a", "r", "y", " ", "1", "4", "t", "h">>, <<"F", "e", "b", "r", "u", "a", "r", "y", " ", "2", "3", "r", "d">>}}
    \cup {Block("p", "", <<"a">>), Block("p", "", <<"b">>), LeadInParagraph,
          Block("hr", "", <<>>)}

BoundedDayPages == UNION {[1..n -> DayBlocks] : n \in 0..MaxDayBlocks}

\* The calls made: the bounded pages for two days of February whose ordinals
\* share a digit with other headings, and the month's page for every day of
\* every month.
DayCalls ==
    {[html |-> h, day |-> d, month_name |-> ENGLISH_MONTHS[2]] :
        h \in BoundedDayPages, d \in {3, 13}}
    \cup {[html |-> MartyrologyMonthPage, day |-> d, month_name |-> ENGLISH_MONTHS[m]] :
             d \in 1..MaxDay, m \in 1..12}

DayInit ==
    /\ \E c \in DayCalls :
          d_html = c.html /\ d_day = c.day /\ d_month_name = c.month_name
    /\ d_day_ordinal = <<>> /\ d_result = <<>> /\ d_pc = "idle"
    /\ ReadingsInit /\ serial = TRUE
    /\ MartyrologyInit /\ ParseIdle /\ CleanIdle /\ TruncateIdle

DayCall ==
    /\ d_pc = "idle"
    /\ d_day_ordinal' = ordinal(d_day)
    /\ d_result' = parse_martyrology_for_day(d_html, d_day, d_month_name)
    /\ d_pc' = "done"
    /\ UNCHANGED <<d_html, d_day, d_month_name>>
    /\ UNCHANGED <<clock_vars, readings_vars, martyrology_vars, parse_vars, clean_vars,
                   truncate_vars>>

DayNext == DayCall

DaySpec == DayInit /\ [][DayNext]_vars

(***************************************************************************)
(* truncate_text applied to texts of every length up to a bound, with the  *)
(* caps the sensors use                                                    *)
(***************************************************************************)

\* max_length: int = 255, the cap of the sensors' native values.
DEFAULT_MAX_LENGTH == 255

\* truncate_text(text, 500), the cap of the sensors' previews.
PREVIEW_MAX_LENGTH == 500

\* Python's s[:k]
SliceTo(s, k) ==
    IF k >= 0 THEN SubSeq(s, 1, IF k < Len(s) THEN k ELSE Len(s))
    ELSE SubSeq(s, 1, IF Len(s) + k > 0 THEN Len(s) + k ELSE 0)

\* A truncation that keeps max_length characters before the ellipsis.
truncate_text_KeepAll(txt, max_length) ==
    IF txt = <<>> THEN <<>>
    ELSE IF Len(txt) <= max_length THEN txt
    ELSE SliceTo(txt, max_length) \o <<".", ".", ".">>

\* truncate_text(text, max_length)
truncate_text(txt, max_length) ==
    IF txt = <<>> THEN <<>>
    ELSE IF Len(txt) <= max_length THEN txt
    ELSE SliceTo(txt, max_length - 3) \o <<".", ".", ".">>

\* Length of the longest text.
MaxTextLen == 503

\* A text whose characters differ from place to place.
LongText == [i \in 1..MaxTextLen |-> DigitChars[((i * i) % 10) + 1]]

\* The texts handed to truncate_text: the pieces of LongText that begin at
\* its first or its fourth character.
TruncateTexts == {SubSeq(LongText, a, n) : a \in {1, 4}, n \in 0..MaxTextLen}

TruncateInit ==
    /\ t_text \in TruncateTexts
    /\ t_max_length \in {DEFAULT_MAX_LENGTH, PREVIEW_MAX_LENGTH}
    /\ t_result = <<>> /\ t_pc = "idle"
    /\ ReadingsInit /\ serial = TRUE
    /\ MartyrologyInit /\ ParseIdle /\ CleanIdle /\ DayIdle

TruncateCall ==
    /\ t_pc = "idle"
    /\ t_result' = truncate_text(t_text, t_max_length)
    /\ t_pc' = "done"
    /\ UNCHANGED <<t_text, t_max_length>>
    /\ UNCHANGED <<clock_vars, readings_vars, martyrology_vars, parse_vars, clean_vars,
                   day_vars>>

TruncateNext == TruncateCall

TruncateSpec == TruncateInit /\ [][TruncateNext]_vars

(***************************************************************************)
(* Properties of ReadingsCoordinator                                       *)
(***************************************************************************)

\* A step in which caller p's content request ends in a failure.
ContentFails(p) ==
    pc[p] = "content" /\ pc'[p] # "content" /\ log' # "Parsed Swedish readings"

\* C1: when the callers never overlap, once a refresh begun on date D has
\* taken the 200 branch, no step on date D sends a request (no caller comes
\* to wait for the week page or the content page) or changes data,
\* last_update, error or url; only a change of date lets a call fetch again.
C1_MemoizedPerDate ==
    [][ (today \in ok_dates /\ today' = today)
            => /\ \A p \in Callers : pc'[p] \notin {"week", "content"}
               /\ data' = data /\ last_update' = last_update
               /\ error' = error /\ url' = url ]_vars

\* A refresh has returned at the cache check on a date whose data was fetched.
C1_CacheHit == today \in ok_dates /\ today \in hit_dates

\* C2: when the callers never overlap, a refresh whose content request fails
\* (a status other than 200, a timeout, an exception) returns, leaves a
\* non-empty string in error, and leaves data, last_update and what
\* get_first_reading returns as they were.
C2_FailureContained ==
    [][ \A p \in Callers :
            ContentFails(p)
                => /\ pc'[p] = Returned(p)
                   /\ Truthy(error')
                   /\ data' = data /\ last_update' = last_update
                   /\ get_first_reading(data') = get_first_reading(data) ]_vars

\* A content request has raised an exception and error is the empty string.
C2_EmptyError == log = "Exception fetching Swedish readings" /\ error = <<>>

\* The fields one refresh begun on date d can leave, whatever the two
\* requests answer, when it finds the cache base.
SingleRefreshOutcomes(base, d) ==
    {ContentResult([data |-> base.data, last_update |-> base.last_update,
                    error |-> None, url |-> ResolvedUrls[w][d]], r, d) :
        w \in WeekResponses, r \in ContentResponses}

\* C3: when two refreshes begun on the same date have overlapped and both
\* have returned, data, last_update, error and url are what a single refresh
\* begun on that date would have left.
C3_OverlapAsSingle ==
    (episode.calls = 2 /\ \A p \in Callers : ~InFlight(p))
        => Fields \in SingleRefreshOutcomes(episode.base, episode.date)

\* Two overlapping refreshes have returned: the data is of their date, and
\* error holds the failure of the one that ended last.
C3_FreshDataWithError ==
    /\ episode.calls = 2 /\ \A p \in Callers : ~InFlight(p)
    /\ data # NoData /\ last_update = episode.date /\ Truthy(error)

\* A step in which ReadingsStatusSensor.async_update writes the status.
StatusWritten ==
    (pc["status"] = "content" /\ pc'["status"] = "idle") \/ status_sensor' # status_sensor

\* C4: whenever the status sensor is updated, its value is "Fel" exactly
\* when error is a non-empty string, "OK" exactly when error is empty or None
\* and data is present, and "Väntar" exactly when neither is present; it is
\* always one of the three.
C4_StatusFunction ==
    [][ StatusWritten
            => /\ status_sensor' \in {"Fel", "OK", "Väntar"}
               /\ (status_sensor' = "Fel") <=> Truthy(error')
               /\ (status_sensor' = "OK") <=> (~Truthy(error') /\ data' # NoData)
               /\ (status_sensor' = "Väntar") <=> (~Truthy(error') /\ data' = NoData) ]_vars

\* The sensor shows an error while data is present.
C4_ErrorOverData == status_sensor = "Fel" /\ data # NoData /\ Truthy(error)

\* The slug start the week page is searched for: /{weekday}-den-{day}-
DaySlug(d) ==
    <<"/">> \o SWEDISH_WEEKDAYS[DateFields(d).weekday + 1] \o <<"-", "d", "e", "n", "-">>
    \o Digits(DateFields(d).day) \o <<"-">>

\* The hrefs of a week page answered with 200 that hold the slug start
\* followed by some spelling of the month.
DayLinks(w, d) ==
    IF w.status # 200 THEN {}
    ELSE {j \in 1..Len(w.html) :
             \E i \in 1..Len(w.html[j]) :
                 /\ StartsWithAtCI(w.html[j], DaySlug(d), i)
                 /\ i + Len(DaySlug(d)) <= Len(w.html[j])}

\* The first such link, with the host put before a path.
DiscoveredLink(w, d) ==
    LET href == w.html[Min(DayLinks(w, d))]
    IN IF Head(href) = "/" THEN <<"h", "t", "t", "p", "s", ":", "/", "/", "w", "w", "w", ".", "k", "a", "t", "o", "l", "s", "k", "a", "k", "y", "r", "k", "a", "n", ".", "s", "e">> \o href ELSE href

\* C5: when the week page request of a refresh ends, the refresh goes on to
\* request the content page and error stays as it was; the URL requested is
\* the link the week page holds for the day when the page came with 200 and
\* holds one, and the URL build_katolska_url calculates in every other case.
C5_UrlResolution ==
    [][ \A p \in Callers :
            (pc[p] = "week" /\ pc'[p] # "week")
                => /\ pc'[p] = "content"
                   /\ error' = error
                   /\ req_url'[p] =
                        IF DayLinks(week_seen'[p], call_today[p]) # {}
                        THEN DiscoveredLink(week_seen'[p], call_today[p])
                        ELSE build_katolska_url(call_today[p]) ]_vars

\* A content request is in flight for a link of the week page that is not
\* the calculated URL.
C5_MisspelledLink ==
    \E p \in Callers :
        /\ pc[p] = "content"
        /\ week_seen[p].status = 200 /\ week_seen[p].html = NavMisspelled
        /\ req_url[p] # build_katolska_url(call_today[p])
        /\ req_url[p] = <<"h", "t", "t", "p", "s", ":", "/", "/", "w", "w", "w", ".", "k", "a", "t", "o", "l", "s", "k", "a", "k", "y", "r", "k", "a", "n", ".", "s", "e">> \o NavMisspelled[call_today[p]]

(***************************************************************************)
(* Properties of MartyrologyCoordinator                                    *)
(***************************************************************************)

\* C6: once a martyrology refresh begun on date D has taken the 200 branch,
\* no step on date D sends a request, whatever text the page gave, the empty
\* text of a page without the day's heading included.
C6_MartyrologyMemoized ==
    [][ (today \in m_ok_dates /\ today' = today)
            => ~(m_pc = "idle" /\ m_pc' = "fetch") ]_vars

\* A request is in flight on a date whose page was fetched with 200 and gave
\* the empty text.
C6_EmptyTextRefetched ==
    /\ today \in m_ok_dates /\ m_last_update = today /\ text = <<>>
    /\ m_pc = "fetch" /\ m_call_today = today

(***************************************************************************)
(* Properties of parse_katolska_readings                                   *)
(***************************************************************************)

\* The header paragraphs of a section kind, in page order: the paragraphs
\* with one of the labels and a reference.
HeadersOf(html, labels) ==
    {j \in 1..Len(html) : html[j].k = "hdr" /\ html[j].label \in labels /\ html[j].ref # <<>>}

\* Some paragraph of doc is a marker paragraph "Ur Lektionarium ...".
HasMarker(doc) == \E j \in 1..Len(doc) : doc[j].k = "marker"

\* The header the version selection names: the last when marked holds and
\* the section has more than one header, the first otherwise.
SelectedHeader(html, labels, marked) ==
    LET H == HeadersOf(html, labels)
    IN IF marked /\ Cardinality(H) > 1
       THEN CHOOSE j \in H : \A k \in H : k <= j
       ELSE CHOOSE j \in H : \A k \in H : j <= k

\* The section comes from the selected header of its kind, when it has one.
FromSelectedHeader(html, labels, marked, section) ==
    HeadersOf(html, labels) # {}
        => section.reference = html[SelectedHeader(html, labels, marked)].ref

\* The labels the first reading is looked for under.
FirstReadingLabels(html) ==
    IF HeadersOf(html, {"Första läsningen"}) # {} THEN {"Första läsningen"} ELSE {"Läsning"}

\* Every section of result comes from the selected header of its kind among
\* the headers of html.
VersionsSelected(html, marked, result) ==
    /\ FromSelectedHeader(html, FirstReadingLabels(html), marked, result.first_reading)
    /\ FromSelectedHeader(html, {"Responsoriepsalm"}, marked, result.responsorial_psalm)
    /\ FromSelectedHeader(html, {"Andra läsningen", "2:a läsningen"}, marked,
                          result.second_reading)
    /\ FromSelectedHeader(html, {"Evangelium"}, marked, result.gospel)

\* C7 as stated: in each section kind (first reading, psalm, second reading,
\* gospel) the result comes from the last header of the kind when the
\* document holds the marker "Ur Lektionarium" and the kind has more than
\* one header, and from the first header otherwise.
C7_MarkerInDocument ==
    p_pc = "done" => VersionsSelected(MainContent(p_page), HasMarker(p_page), p_result)

\* C7, amended: in each section kind the result comes from the last header of
\* the kind when the content the sections are read from (the main element,
\* or the page when it has no closed main element) holds the marker
\* "Ur Lektionarium" and the kind has more than one header, and from the
\* first header otherwise.
C7_VersionSelection ==
    p_pc = "done" =>
        VersionsSelected(MainContent(p_page), HasMarker(MainContent(p_page)), p_result)

\* A page with two gospel headers and the marker was parsed, and the gospel
\* is the later one.
C7_LaterEdition ==
    /\ p_pc = "done"
    /\ p_page = << Block("hdr", "Evangelium", <<"1">>), Block("hdr", "Evangelium", <<"2">>),
                   Marker2022 >>
    /\ p_result.gospel.reference = <<"2">>

\* A str: a sequence of characters, and not None.
IsStr(x) == x # None /\ DOMAIN x = 1..Len(x) /\ \A i \in 1..Len(x) : x[i] \in STRING

\* A section with exactly these fields, each a str.
WellTyped(section, fields) ==
    DOMAIN section = fields /\ \A f \in fields : IsStr(section[f])

\* A section of a kind that has no header paragraph at all is empty.
EmptyWhenMissing(html, labels, section) ==
    (\A j \in 1..Len(html) : ~(html[j].k = "hdr" /\ html[j].label \in labels))
        => \A f \in DOMAIN section : section[f] = <<>>

\* C8: for every page the parser returns a record whose first_reading,
\* second_reading and gospel have the str fields reference and text, and
\* whose responsorial_psalm has the str fields reference, text and response;
\* a section whose header is missing has every field the empty string.
C8_AbsenceHandling ==
    p_pc = "done" =>
        LET html == MainContent(p_page)
        IN /\ {"first_reading", "responsorial_psalm", "second_reading", "gospel"}
                  \subseteq DOMAIN p_result
           /\ WellTyped(p_result.first_reading, {"reference", "text"})
           /\ WellTyped(p_result.second_reading, {"reference", "text"})
           /\ WellTyped(p_result.gospel, {"reference", "text"})
           /\ WellTyped(p_result.responsorial_psalm, {"reference", "text", "response"})
           /\ EmptyWhenMissing(html, {"Första läsningen", "Läsning"}, p_result.first_reading)
           /\ EmptyWhenMissing(html, {"Responsoriepsalm"}, p_result.responsorial_psalm)
           /\ EmptyWhenMissing(html, {"Andra läsningen", "2:a läsningen"},
                               p_result.second_reading)
           /\ EmptyWhenMissing(html, {"Evangelium"}, p_result.gospel)

\* A weekday page without a second reading was parsed: the second reading is
\* empty, and the sections that have a header are not.
C8_NoSecondReading ==
    /\ p_pc = "done"
    /\ p_page = << Block("hdr", "Läsning", <<"1">>), Block("p", "", <<"a">>),
                   Block("hdr", "Evangelium", <<"2">>) >>
    /\ p_result.second_reading = [reference |-> <<>>, text |-> <<>>]
    /\ p_result.first_reading = [reference |-> <<"1">>, text |-> <<"a">>]
    /\ p_result.gospel.reference = <<"2">>

(***************************************************************************)
(* Properties of clean_html                                                *)
(***************************************************************************)

\* C9: cleaning a cleaned text changes nothing.
C9_Idempotent == c_pc = "twice" => c_twice = c_once

\* The entity of an ampersand before "nbsp;" was cleaned to the entity of a
\* space, and cleaned again to nothing.
C9_DoubleDecoding ==
    /\ c_pc = "twice" /\ c_html = <<"&", "a", "m", "p", ";", "n", "b", "s", "p", ";">>
    /\ c_once = <<"&", "n", "b", "s", "p", ";">> /\ c_twice = <<>>

\* Position i of s lies between an opening tag and the first closing tag
\* after it.
InsideBlock(s, open, close, i) ==
    \E a \in 1..i :
        /\ StartsWithAt(s, open, a) /\ a + Len(open) <= i
        /\ \E c \in (i + 1)..Len(s) : StartsWithAt(s, close, c)
        /\ \A c \in (a + Len(open))..i : ~StartsWithAt(s, close, c)

InsideScriptOrStyle(s, i) ==
    \/ InsideBlock(s, <<"<", "s", "c", "r", "i", "p", "t", ">">>, <<"<", "/", "s", "c", "r", "i", "p", "t", ">">>, i)
    \/ InsideBlock(s, <<"<", "s", "t", "y", "l", "e", ">">>, <<"<", "/", "s", "t", "y", "l", "e", ">">>, i)

\* C10: a letter that the text holds only inside script blocks and style
\* blocks is not in the cleaned text.
C10_BlocksRemoved ==
    c_pc # "idle" =>
        \A ch \in {"j", "b"} :
            (\A i \in 1..Len(c_html) : c_html[i] = ch => InsideScriptOrStyle(c_html, i))
                => \A k \in 1..Len(c_once) : c_once[k] # ch

\* The content of a script block is the cleaned text.
C10_ScriptKept ==
    c_pc # "idle" /\ c_html = <<"<", "s", "c", "r", "i", "p", "t", ">", "j", "<", "/", "s", "c", "r", "i", "p", "t", ">">> /\ c_once = <<"j">>

(***************************************************************************)
(* Properties of parse_martyrology_for_day and ordinal                     *)
(***************************************************************************)

\* The headings of html for the day: the h2 blocks whose text is
\* '{Month} {ordinal(day)}'.
DayHeadings(html, day, month_name) ==
    {j \in 1..Len(html) :
        /\ html[j].k = "h2"
        /\ html[j].ref = Capitalize(month_name) \o <<" ">> \o ordinal(day)}

\* The blocks between the first heading for the day and the next h2 or hr,
\* or the end of the page.
DaySection(html, day, month_name) ==
    LET h == Min(DayHeadings(html, day, month_name))
        St == {j \in (h + 1)..Len(html) : html[j].k \in {"h2", "hr"}}
    IN SubSeq(html, h + 1, (IF St = {} THEN Len(html) + 1 ELSE Min(St)) - 1)

\* The texts of paragraphs, one blank line between two of them.
RECURSIVE JoinParagraphs(_)
JoinParagraphs(ps) ==
    IF ps = <<>> THEN <<>>
    ELSE IF Len(ps) = 1 THEN ps[1].ref
    ELSE ps[1].ref \o <<"\n", "\n">> \o JoinParagraphs(Tail(ps))

\* The result is the empty string when the page has no heading for the day,
\* and otherwise the text of those paragraphs of the day's section that
\* keep holds of.
DayResultIs(keep(_)) ==
    IF DayHeadings(d_html, d_day, d_month_name) = {} THEN d_result = <<>>
    ELSE d_result = JoinParagraphs(
                        SelectSeq(DaySection(d_html, d_day, d_month_name), keep))

AnyParagraph(b) == TRUE

NotLeadIn(b) == b # LeadInParagraph

\* C11 as stated: the result is the normalized content between the heading
\* '{Month} {ordinal(day)}' and the next h2 or hr (or the end of the page),
\* nothing under a later heading; it is the empty string when no heading
\* names the day, a heading of a day that shares digits not being one.
C11_NormalizedSection == d_pc = "done" => DayResultIs(AnyParagraph)

\* C11, amended: the same, with the lead-in sentences "This Day, the Nth Day
\* of {Month}" of the section left out of the result.
C11_BoundedToDay == d_pc = "done" => DayResultIs(NotLeadIn)

\* The month's page was parsed for the 13th: the result is the paragraph
\* under the heading of the 13th, without the lead-in and without what
\* follows the heading of the 14th.
C11_ThirteenthAlone ==
    /\ d_pc = "done" /\ d_html = MartyrologyMonthPage
    /\ d_day = 13 /\ d_month_name = ENGLISH_MONTHS[2]
    /\ d_result = <<"a">>

\* The decimal numeral of n, for 0 <= n <= 99.
Decimal(n) ==
    IF n < 10 THEN <<DigitChars[n + 1]>>
    ELSE <<DigitChars[(n \div 10) + 1], DigitChars[(n % 10) + 1]>>

\* The ordinals the specification lists.
ListedOrdinals ==
    << <<1, <<"1", "s", "t">>>>, <<2, <<"2", "n", "d">>>>, <<3, <<"3", "r", "d">>>>, <<11, <<"1", "1", "t", "h">>>>, <<12, <<"1", "2", "t", "h">>>>,
       <<13, <<"1", "3", "t", "h">>>>, <<21, <<"2", "1", "s", "t">>>>, <<22, <<"2", "2", "n", "d">>>>, <<23, <<"2", "3", "r", "d">>>>,
       <<31, <<"3", "1", "s", "t">>>> >>

\* C12: for every day n of 1..31, ordinal(n) is the decimal n followed by
\* "th" when n is 11, 12 or 13, otherwise by "st" when n mod 10 = 1, "nd"
\* when n mod 10 = 2, "rd" when n mod 10 = 3, and "th" in the remaining
\* cases; the listed ordinals are as written.
C12_Ordinal ==
    d_pc = "done" =>
        /\ d_day_ordinal =
              Decimal(d_day) \o
                 (IF d_day \in {11, 12, 13} THEN <<"t", "h">>
                  ELSE IF d_day % 10 = 1 THEN <<"s", "t">>
                  ELSE IF d_day % 10 = 2 THEN <<"n", "d">>
                  ELSE IF d_day % 10 = 3 THEN <<"r", "d">>
                  ELSE <<"t", "h">>)
        /\ \A i \in 1..Len(ListedOrdinals) :
              d_day = ListedOrdinals[i][1] => d_day_ordinal = ListedOrdinals[i][2]

\* The ordinals of the 12th and of the 22nd were computed.
C12_TeensAndTwenties ==
    /\ d_pc = "done"
    /\ \/ d_day = 12 /\ d_day_ordinal = <<"1", "2", "t", "h">>
       \/ d_day = 22 /\ d_day_ordinal = <<"2", "2", "n", "d">>

(***************************************************************************)
(* Properties of truncate_text                                             *)
(***************************************************************************)

\* C13: with the cap N of the call (255 or 500), the result has at most N
\* characters; it is the text when the text has at most N characters, and
\* the first N - 3 characters of the text followed by "..." (N characters in
\* all) when the text has more.
C13_LengthCap ==
    t_pc = "done" =>
        /\ t_max_length \in {255, 500}
        /\ Len(t_result) <= t_max_length
        /\ Len(t_text) <= t_max_length => t_result = t_text
        /\ Len(t_text) > t_max_length =>
              /\ Len(t_result) = t_max_length
              /\ \A i \in 1..(t_max_length - 3) : t_result[i] = t_text[i]
              /\ \A i \in (t_max_length - 2)..t_max_length : t_result[i] = "."

\* A text of 256 characters was cut to 255 that end in an ellipsis.
C13_OneTooLong ==
    /\ t_pc = "done" /\ Len(t_text) = 256 /\ t_max_length = 255
    /\ Len(t_result) = 255 /\ t_result[252] = t_text[252] /\ t_result[253] = "."

(***************************************************************************)
(* Further properties of parse_katolska_readings                           *)
(***************************************************************************)

\* The reading is the reference and the body of one of the matches.
TakenFrom(html, matches, reading) ==
    \E i \in 1..Len(matches) : reading = ReadingOf(html, matches[i])

\* C14: when the content holds a "Första läsningen" header, first_reading
\* is taken from a "Första läsningen" match, its reference being the
\* reference of such a header, also when a "Läsning" header comes earlier;
\* it is taken from a "Läsning" match only when no "Första läsningen"
\* header is there.
C14_FirstReadingPriority ==
    p_pc = "done" =>
        LET html == MainContent(p_page)
            firsts == HeadersOf(html, {"Första läsningen"})
            plains == HeadersOf(html, {"Läsning"})
        IN /\ firsts # {} =>
                 /\ TakenFrom(html, first_reading_matches(html), p_result.first_reading)
                 /\ \E j \in firsts : p_result.first_reading.reference = html[j].ref
           /\ (firsts = {} /\ plains # {}) =>
                 /\ TakenFrom(html, reading_matches(html), p_result.first_reading)
                 /\ \E j \in plains : p_result.first_reading.reference = html[j].ref

\* A page with a "Läsning" header before a "Första läsningen" header was
\* parsed, and the first reading is the later one.
C14_PlainHeaderEarlier ==
    /\ p_pc = "done"
    /\ p_page = << Block("hdr", "Läsning", <<"1">>), Block("p", "", <<"a">>),
                   Block("hdr", "Första läsningen", <<"2">>) >>
    /\ p_result.first_reading = [reference |-> <<"2">>, text |-> <<>>]

\* The body captured for the psalm header of a page that begins with it:
\* the blocks after the header up to the next header.
CapturedPsalmBody(page) ==
    LET St == {j \in 2..Len(page) : page[j].k = "hdr"}
    IN SubSeq(page, 2, (IF St = {} THEN Len(page) + 1 ELSE Min(St)) - 1)

MarkersIn(body) == {j \in 1..Len(body) : body[j].k = "marker"}

\* The psalm of the result is the portion of body after block j: its text is
\* the normalized portion, its response the first "R." paragraph there.
PsalmKeptAfter(body, j) ==
    LET kept == SubSeq(body, j + 1, Len(body))
        R == {i \in 1..Len(kept) : kept[i].k = "resp"}
    IN /\ p_result.responsorial_psalm.text = Strip(clean_html(RenderAll(kept)))
       /\ p_result.responsorial_psalm.response = IF R = {} THEN <<>> ELSE kept[Min(R)].ref

\* C15 as stated: when the body captured for the psalm header holds two
\* marker paragraphs or more, the psalm is the portion after the second
\* marker, and the response the first "R." paragraph of that portion.
C15_AfterSecondMarker ==
    (p_pc = "done" /\ p_page \in PsalmPages) =>
        LET body == CapturedPsalmBody(p_page)
            M == MarkersIn(body)
        IN Cardinality(M) >= 2 => PsalmKeptAfter(body, Min(M \ {Min(M)}))

\* C15, amended: the psalm is the portion of the captured body after the
\* first marker paragraph that names 2022, and the whole body when no marker
\* names 2022; the response is the first "R." paragraph of that portion.
C15_AfterMarker2022 ==
    (p_pc = "done" /\ p_page \in PsalmPages) =>
        LET body == CapturedPsalmBody(p_page)
            M == {j \in MarkersIn(body) : body[j] = Marker2022}
        IN PsalmKeptAfter(body, IF M = {} THEN 0 ELSE Min(M))

\* A psalm with the 1994 edition and then the 2022 edition was parsed, and
\* the psalm of the result is the 2022 edition.
C15_LaterEditionKept ==
    /\ p_pc = "done"
    /\ p_page = << Block("hdr", "Responsoriepsalm", <<"1">>), Marker1994,
                   Block("resp", "", <<"v">>), Marker2022, Block("resp", "", <<"w">>) >>
    /\ p_result.responsorial_psalm = [reference |-> <<"1">>, text |-> <<"R", ".", " ", "w">>, response |-> <<"w">>]

(***************************************************************************)
(* Further properties of ReadingsCoordinator                               *)
(***************************************************************************)

\* C16: whenever the data is that of the current date (data present and
\* last_update the current date, so that a refresh returns at once), error
\* is None.
C16_NoErrorOverFreshData ==
    (data # NoData /\ last_update = today) => error = None

\* Every refresh has returned, the data is that of the current date, error
\* holds a message and the status sensor shows "Fel".
C16_StuckError ==
    /\ \A p \in Callers : pc[p] = Returned(p)
    /\ data # NoData /\ last_update = today /\ data.date = IsoFormat(today)
    /\ error # None /\ error # <<>>
    /\ status_sensor = "Fel"

\* C17: whenever data is present, url is the url recorded in data, and that
\* url is the one the page of the data was requested from.
C17_SourceUrlOfData ==
    data # NoData => (url = data.url /\ data.url = data_src)

\* Data is present whose recorded url is not the url its page was requested
\* from.
C17_UrlOfAnotherRequest ==
    data # NoData /\ data_src # None /\ data.url # data_src

\* The coordinator holds the data of date d, fetched without an error.
RecoveredOn(d) ==
    data # NoData /\ data.date = IsoFormat(d) /\ last_update = d /\ error = None

\* After a refresh of the current date whose content request failed, with
\* no content request answered 200 since, the next refresh fetches: the
\* data is not that of the current date, so the refresh does not return at
\* once.
FailureNotMemoized ==
    failed_date = today => ~(data # NoData /\ last_update = today)

\* C18: a failed refresh is never memoized, and with refreshes invoked again
\* and again and the content page answered 200 at some time, after a failed
\* refresh on date D the coordinator comes to hold the data of D with
\* last_update D and error None, unless the date changes before.
C18_EventualRecovery ==
    /\ []FailureNotMemoized
    /\ \A d \in Dates :
          (today = d /\ failed_date = d) ~> (today # d \/ RecoveredOn(d))

\* Every refresh has returned, the last content request to end failed on the
\* current date, and the data is that of the current date, so that no
\* refresh fetches before the date changes.
C18_FailureMemoized ==
    /\ \A p \in Callers : pc[p] = Returned(p)
    /\ failed_date = today
    /\ data # NoData /\ last_update = today
    /\ ~RecoveredOn(today)

(***************************************************************************)
(* Disjoint section bodies of parse_katolska_readings                      *)
(***************************************************************************)

\* C19: the text of the psalm ends at the next section header: it holds no
\* "Andra läsningen" header, and none of the text returned as the text of
\* the second reading.
C19_PsalmEndsAtHeader ==
    p_pc = "done" =>
        /\ ~Contains(p_result.responsorial_psalm.text, LabelChars("Andra läsningen"))
        /\ p_result.second_reading.text # <<>> =>
              ~Contains(p_result.responsorial_psalm.text, p_result.second_reading.text)

\* A page with the psalm and then the second reading was parsed: the text of
\* the psalm holds the header and the text of the second reading.
C19_PsalmHoldsSecondReading ==
    /\ p_pc = "done"
    /\ p_page = << Block("hdr", "Responsoriepsalm", <<"1">>),
                   Block("hdr", "Andra läsningen", <<"2">>), Block("p", "", <<"a">>) >>
    /\ p_result.second_reading = [reference |-> <<"2">>, text |-> <<"a">>]
    /\ p_result.responsorial_psalm.text = <<"A", "n", "d", "r", "a", " ", "l", "ä", "s", "n", "i", "n", "g", "e", "n", " ", "2", "\n", "\n", "a">>

====
